---------------------------- MODULE Spec2Model ----------------------------
(***************************************************************************)
(* Model of the strategy backtesting engine: StrategyInterpreter           *)
(* (src/strategy-interpreter.js) and the validation half of                *)
(* StrategyLibrary (src/strategy-library.js).                              *)
(*                                                                         *)
(* One StrategyInterpreter instance and one StrategyLibrary are modelled.  *)
(* A call of interpret() is split into its synchronous steps: the prefix   *)
(* up to the simulation loop (Interpret), one action per loop iteration    *)
(* (LoopStep) and the statistics and return (Finish).  Arrays that the     *)
(* code shares by reference (trades, buyMarkers, sellMarkers) live in a    *)
(* heap, so that aliasing between the instance and the reports it has      *)
(* returned is part of the state.                                          *)
(***************************************************************************)
EXTENDS Integers, Sequences, FiniteSets, TLC

(***************************************************************************)
(* Bounds of the model.                                                    *)
(***************************************************************************)
\* longest bar series handed to the interpreter
MaxBars == 4
\* close prices are 1..MaxClose
MaxClose == 2
\* reports the caller holds on to while it makes further calls
MaxHeld == 1

(***************************************************************************)
(* JavaScript numbers.  A number is a fraction n/d in lowest terms with    *)
(* d > 0; d = 0 encodes the IEEE specials: 1/0 Infinity, -1/0 -Infinity,   *)
(* 0/0 NaN.  Rounding of doubles is not modelled.                          *)
(***************************************************************************)
Abs(x) == IF x < 0 THEN -x ELSE x

Sgn(x) == IF x < 0 THEN -1 ELSE IF x > 0 THEN 1 ELSE 0

RECURSIVE Gcd(_, _)
Gcd(a, b) == IF b = 0 THEN a ELSE Gcd(b, a % b)

Norm(n, d) ==
    IF d = 0 THEN [n |-> Sgn(n), d |-> 0]
    ELSE LET g == Gcd(Abs(n), Abs(d))
         IN  [n |-> (Sgn(d) * n) \div g, d |-> Abs(d) \div g]

Num(k) == [n |-> k, d |-> 1]

IsNaN(x) == x.d = 0 /\ x.n = 0

IsFinite(x) == x.d # 0

NumAdd(x, y) ==
    IF x.d = 0 /\ y.d = 0
    THEN (IF x.n = y.n THEN x ELSE [n |-> 0, d |-> 0])
    ELSE Norm(x.n * y.d + y.n * x.d, x.d * y.d)

NumNeg(x) == [n |-> -x.n, d |-> x.d]

NumSub(x, y) == NumAdd(x, NumNeg(y))

NumMul(x, y) == Norm(x.n * y.n, x.d * y.d)

\* x / y: a finite x over 0 is an infinity of the sign of x, 0 / 0 is NaN
NumDiv(x, y) ==
    IF y.n = 0 /\ y.d # 0 THEN Norm(x.n, 0)
    ELSE Norm(x.n * y.d * Sgn(y.n), x.d * Abs(y.n))

NumLess(x, y) ==
    IF IsNaN(x) \/ IsNaN(y) THEN FALSE
    ELSE IF x.d = 0 /\ y.d = 0 THEN x.n < y.n
    ELSE x.n * y.d < y.n * x.d

NumAbs(x) == [n |-> Abs(x.n), d |-> x.d]

(***************************************************************************)
(* JavaScript values.  Every value is a record tagged by t, so that values *)
(* of different JavaScript types can be compared.                          *)
(***************************************************************************)
Undefined == [t |-> "undefined"]

Null == [t |-> "null"]

\* a callable predicate supplied by the caller: its result at an index is
\* an input of the run
UserFn == [t |-> "function", f |-> "user"]

\* the arrow function () => false of createCustomStrategy
FalseFn == [t |-> "function", f |-> "constFalse"]

Str(chars) == [t |-> "string", text |-> chars]

\* JavaScript truthiness of a field value
Truthy(v) == v.t \notin {"undefined", "null"} /\ v # Str(<<>>)

\* a || b
OrElse(a, b) == IF Truthy(a) THEN a ELSE b

(***************************************************************************)
(* Bars.  A bar carries the six OHLCV fields; the series are drawn over    *)
(* the close, the other fields follow from it.                             *)
(***************************************************************************)
Closes == 1..MaxClose

Bar(pos, c) ==
    [time |-> 100 + pos, open |-> c, high |-> c + 1, low |-> c - 1,
     close |-> c, volume |-> 10 * c]

SeriesOfLen(n) ==
    {[k \in 1..n |-> Bar(k, cs[k])] : cs \in [1..n -> Closes]}

BarSeries(maxLen) == UNION {SeriesOfLen(n) : n \in 0..maxLen}


(***************************************************************************)
(* Strategy descriptors.  An object carries the four fields the engine     *)
(* reads; a field the object does not have is Undefined.                   *)
(***************************************************************************)
Arr(items) == [t |-> "array", items |-> items]

IndicatorSpec(sma, ema) == [t |-> "object", sma |-> sma, ema |-> ema]

Conditions(buy, sell) == [t |-> "object", buy |-> buy, sell |-> sell]

Descriptor(name, inds, conds, bars) ==
    [t |-> "object", name |-> name, indicators |-> inds,
     conditions |-> conds, data |-> bars]

\* a strategy string, given by what JSON.parse makes of it
StrategyString(parsed) == [t |-> "string", json |-> parsed]

SyntaxError == [t |-> "syntaxError"]

\* the number 42 handed in as a strategy
NumberValue == [t |-> "number"]

\* strategy.field: a TypeError on null and undefined, undefined on a
\* primitive
CanRead(v) == v.t \notin {"null", "undefined"}

Field(v, f) == IF v.t = "object" /\ f \in DOMAIN v THEN v[f] ELSE Undefined

(***************************************************************************)
(* Text.  A string is a sequence of characters; a number that is not a     *)
(* non-negative integer is kept as one element when it is written into a   *)
(* text.                                                                   *)
(***************************************************************************)
Ch(c) == [c |-> c]

Chars(s) == [k \in DOMAIN s |-> Ch(s[k])]

DigitChars == <<"0", "1", "2", "3", "4", "5", "6", "7", "8", "9">>

Letters ==
    {"a", "b", "c", "d", "e", "f", "g", "h", "i", "j", "k", "l", "m", "n",
     "o", "p", "q", "r", "s", "t", "u", "v", "w", "x", "y", "z", "A", "B",
     "C", "D", "E", "F", "G", "H", "I", "J", "K", "L", "M", "N", "O", "P",
     "Q", "R", "S", "T", "U", "V", "W", "X", "Y", "Z", "_"}

IsChar(e) == "c" \in DOMAIN e

IsDigit(e) == IsChar(e) /\ \E k \in 1..10 : DigitChars[k] = e.c

IsLetter(e) == IsChar(e) /\ e.c \in Letters

DigitVal(e) == (CHOOSE k \in 1..10 : DigitChars[k] = e.c) - 1

RECURSIVE Digits(_)
Digits(k) ==
    IF k < 10 THEN <<Ch(DigitChars[k + 1])>>
    ELSE Digits(k \div 10) \o <<Ch(DigitChars[(k % 10) + 1])>>

\* String(v) for the values a context holds
ToText(v) ==
    IF "d" \in DOMAIN v
    THEN (IF v.d = 1 /\ v.n >= 0 THEN Digits(v.n) ELSE <<v>>)
    ELSE IF v.t = "null" THEN Chars(<<"n", "u", "l", "l">>)
    ELSE Chars(<<"u", "n", "d", "e", "f", "i", "n", "e", "d">>)

StartsWith(text, key) ==
    /\ Len(key) <= Len(text)
    /\ SubSeq(text, 1, Len(key)) = key

\* text.replace(new RegExp(key, 'g'), val) for a key of letters and digits
RECURSIVE ReplaceAll(_, _, _)
ReplaceAll(text, key, val) ==
    IF text = <<>> \/ key = <<>> THEN text
    ELSE IF StartsWith(text, key)
    THEN val \o ReplaceAll(SubSeq(text, Len(key) + 1, Len(text)), key, val)
    ELSE <<Head(text)>> \o ReplaceAll(Tail(text), key, val)

(***************************************************************************)
(* eval() of a substituted expression.  The texts drawn below are of the   *)
(* forms  operand  and  operand op operand  with op one of > < >= <= ==,   *)
(* an operand being an identifier, a literal or a number; every other text *)
(* is taken as a syntax error.  Identifiers left in the text after the     *)
(* substitution are unresolved, but for the literals of the language.      *)
(***************************************************************************)
IsNumElem(e) == "d" \in DOMAIN e

IsOpChar(e) == IsChar(e) /\ e.c \in {">", "<", "="}

RECURSIVE IdLen(_)
IdLen(text) ==
    IF text # <<>> /\ (IsLetter(Head(text)) \/ IsDigit(Head(text)))
    THEN 1 + IdLen(Tail(text)) ELSE 0

RECURSIVE NumLen(_)
NumLen(text) ==
    IF text # <<>> /\ (IsNumElem(Head(text)) \/ IsDigit(Head(text)))
    THEN 1 + NumLen(Tail(text)) ELSE 0

RECURSIVE OpLen(_)
OpLen(text) ==
    IF text # <<>> /\ IsOpChar(Head(text)) THEN 1 + OpLen(Tail(text)) ELSE 0

RECURSIVE DecimalValue(_)
DecimalValue(run) ==
    IF run = <<>> THEN 0
    ELSE 10 * DecimalValue(SubSeq(run, 1, Len(run) - 1)) + DigitVal(run[Len(run)])

RECURSIVE Pow10(_)
Pow10(k) == IF k = 0 THEN 1 ELSE 10 * Pow10(k - 1)

\* decimal places of a finite fraction, -1 when its expansion runs past
\* what a double prints exactly
DecimalPlaces(q) ==
    IF \E k \in 0..6 : (q.n * Pow10(k)) % q.d = 0
    THEN CHOOSE k \in 0..6 : /\ (q.n * Pow10(k)) % q.d = 0
                             /\ \A j \in 0..(k - 1) : (q.n * Pow10(j)) % q.d # 0
    ELSE -1

BadToken == [k |-> "bad"]

\* the number a run of number elements and digits reads as
NumRun(run) ==
    IF \A k \in DOMAIN run : IsDigit(run[k])
    THEN [k |-> "num", v |-> Num(DecimalValue(run))]
    ELSE IF Len(run) = 1 THEN [k |-> "num", v |-> run[1]]
    ELSE IF /\ IsNumElem(run[1]) /\ IsFinite(run[1])
            /\ \A k \in 2..Len(run) : IsDigit(run[k])
    THEN LET q == run[1]
             places == DecimalPlaces(q)
             more == Norm(Sgn(q.n) * DecimalValue(Tail(run)),
                          Pow10(places + Len(run) - 1))
         IN  [k |-> "num", v |-> IF places < 0 THEN q ELSE NumAdd(q, more)]
    ELSE BadToken

RECURSIVE Tokenize(_)
Tokenize(text) ==
    IF text = <<>> THEN <<>>
    ELSE IF Head(text) = Ch(" ") THEN Tokenize(Tail(text))
    ELSE IF IsLetter(Head(text))
    THEN LET n == IdLen(text)
             rest == SubSeq(text, n + 1, Len(text))
         IN  IF rest # <<>> /\ IsNumElem(Head(rest)) THEN <<BadToken>>
             ELSE <<[k |-> "id", s |-> SubSeq(text, 1, n)]>> \o Tokenize(rest)
    ELSE IF IsNumElem(Head(text)) \/ IsDigit(Head(text))
    THEN LET n == NumLen(text)
             rest == SubSeq(text, n + 1, Len(text))
         IN  IF rest # <<>> /\ IsLetter(Head(rest)) THEN <<BadToken>>
             ELSE <<NumRun(SubSeq(text, 1, n))>> \o Tokenize(rest)
    ELSE IF IsOpChar(Head(text))
    THEN LET n == OpLen(text)
             op == SubSeq(text, 1, n)
             rest == SubSeq(text, n + 1, Len(text))
         IN  IF op \in {Chars(<<">">>), Chars(<<"<">>), Chars(<<">", "=">>),
                        Chars(<<"<", "=">>), Chars(<<"=", "=">>)}
             THEN <<[k |-> "op", s |-> op]>> \o Tokenize(rest)
             ELSE <<BadToken>>
    ELSE <<BadToken>>

Literals ==
    {Chars(<<"n", "u", "l", "l">>), Chars(<<"t", "r", "u", "e">>),
     Chars(<<"f", "a", "l", "s", "e">>),
     Chars(<<"u", "n", "d", "e", "f", "i", "n", "e", "d">>)}

Resolves(tok) == tok.k = "num" \/ (tok.k = "id" /\ tok.s \in Literals)

\* ToNumber of an operand
OperandValue(tok) ==
    IF tok.k = "num" THEN tok.v
    ELSE IF tok.s = Chars(<<"t", "r", "u", "e">>) THEN Num(1)
    ELSE IF tok.s = Chars(<<"u", "n", "d", "e", "f", "i", "n", "e", "d">>)
    THEN [n |-> 0, d |-> 0]
    ELSE Num(0)

Compare(a, op, b) ==
    IF op = Chars(<<">">>) THEN NumLess(b, a)
    ELSE IF op = Chars(<<"<">>) THEN NumLess(a, b)
    ELSE IF op = Chars(<<">", "=">>)
    THEN ~IsNaN(a) /\ ~IsNaN(b) /\ ~NumLess(a, b)
    ELSE IF op = Chars(<<"<", "=">>)
    THEN ~IsNaN(a) /\ ~IsNaN(b) /\ ~NumLess(b, a)
    ELSE ~IsNaN(a) /\ a = b

\* the outcome of eval(text): "true" or "false" for the truthiness of its
\* value, "throw" when it raises
JsEval(text) ==
    LET toks == Tokenize(text)
    IN  IF \E k \in DOMAIN toks : toks[k].k = "bad" THEN "throw"
        ELSE IF Len(toks) = 1 /\ toks[1].k # "op"
        THEN (IF ~Resolves(toks[1]) THEN "throw"
              ELSE LET v == OperandValue(toks[1])
                   IN  IF v.n # 0 THEN "true" ELSE "false")
        ELSE IF /\ Len(toks) = 3 /\ toks[1].k # "op" /\ toks[2].k = "op"
                /\ toks[3].k # "op"
        THEN (IF ~Resolves(toks[1]) \/ ~Resolves(toks[3]) THEN "throw"
              ELSE IF Compare(OperandValue(toks[1]), toks[2].s,
                              OperandValue(toks[3]))
              THEN "true" ELSE "false")
        ELSE "throw"

(***************************************************************************)
(* Indicator Engine.  this.indicators is an object whose keys keep their   *)
(* insertion order: a sequence of [key, series] entries.  A series entry   *)
(* is a number or Null.  Bar index i of the code is position i + 1 here.   *)
(***************************************************************************)
RECURSIVE SumClose(_, _, _)
SumClose(d, from, to) ==
    IF from > to THEN 0 ELSE d[from].close + SumClose(d, from + 1, to)

CalculateSMA(d, period) ==
    [k \in 1..Len(d) |->
        IF k - 1 < period - 1 THEN Null
        ELSE Norm(SumClose(d, k - period + 1, k), period)]

RECURSIVE EMAUpTo(_, _, _)
EMAUpTo(d, period, k) ==
    IF k = 1 THEN Num(d[1].close)
    ELSE LET kk == Norm(2, period + 1)
         IN  NumAdd(NumMul(Num(d[k].close), kk),
                    NumMul(EMAUpTo(d, period, k - 1), NumSub(Num(1), kk)))

\* calculateEMA reads this.data[0].close before its loop: a TypeError on an
\* empty series
EMAThrows(d) == Len(d) = 0

CalculateEMA(d, period) == [k \in 1..Len(d) |-> EMAUpTo(d, period, k)]

SmaKey(period) == Chars(<<"s", "m", "a">>) \o Digits(period)

EmaKey(period) == Chars(<<"e", "m", "a">>) \o Digits(period)

\* this.indicators[key] = series
PutKey(map, key, series) ==
    IF \E k \in DOMAIN map : map[k].key = key
    THEN [k \in DOMAIN map |->
            IF map[k].key = key THEN [key |-> key, series |-> series]
            ELSE map[k]]
    ELSE Append(map, [key |-> key, series |-> series])

RECURSIVE PutSMAs(_, _, _)
PutSMAs(map, periods, d) ==
    IF periods = <<>> THEN map
    ELSE PutSMAs(PutKey(map, SmaKey(Head(periods)), CalculateSMA(d, Head(periods))),
                 Tail(periods), d)

RECURSIVE PutEMAs(_, _, _)
PutEMAs(map, periods, d) ==
    IF periods = <<>> THEN map
    ELSE PutEMAs(PutKey(map, EmaKey(Head(periods)), CalculateEMA(d, Head(periods))),
                 Tail(periods), d)

\* the periods an indicator family asks for: strategy.indicators?.family
Periods(strat, family) ==
    LET inds == Field(strat, "indicators")
    IN  IF Truthy(inds) /\ Truthy(Field(inds, family))
        THEN Field(inds, family).items ELSE <<>>

\* strategy.indicators?.family is truthy
Requested(strat, family) ==
    /\ Truthy(Field(strat, "indicators"))
    /\ Truthy(Field(Field(strat, "indicators"), family))

\* config.field || dflt, for a configuration object whose fields are
\* numbers: a field that is missing or 0 gives the default
SettingOr(cfg, f, dflt) ==
    IF f \in DOMAIN cfg /\ cfg[f] # 0 THEN cfg[f] ELSE dflt

\* gains[j] and losses[j] of calculateRSI: the change from bar index j to
\* bar index j + 1
Gain(d, j) ==
    IF d[j + 2].close - d[j + 1].close > 0
    THEN d[j + 2].close - d[j + 1].close ELSE 0

Loss(d, j) ==
    IF d[j + 2].close - d[j + 1].close < 0
    THEN Abs(d[j + 2].close - d[j + 1].close) ELSE 0

\* the sum of gains.slice(from, to): the array has one entry fewer than
\* there are bars, and slice stops at its end
RECURSIVE SumGain(_, _, _)
SumGain(d, from, to) ==
    IF from >= to \/ from > Len(d) - 2 THEN 0
    ELSE Gain(d, from) + SumGain(d, from + 1, to)

RECURSIVE SumLoss(_, _, _)
SumLoss(d, from, to) ==
    IF from >= to \/ from > Len(d) - 2 THEN 0
    ELSE Loss(d, from) + SumLoss(d, from + 1, to)

\* 100 - (100 / (1 + rs))
RsiOf(avgGain, avgLoss) ==
    NumSub(Num(100),
           NumDiv(Num(100), NumAdd(Num(1), NumDiv(avgGain, avgLoss))))

CalculateRSI(d, period) ==
    [k \in 1..Len(d) |->
        IF k - 1 < period THEN Null
        ELSE RsiOf(Norm(SumGain(d, k - period, k), period),
                   Norm(SumLoss(d, k - period, k), period))]

\* calculateEMA takes the period alone: the series handed to it as a second
\* argument for the signal line is not read, and the signal line is the
\* EMA of the closes
CalculateMACD(d, fastPeriod, slowPeriod, signalPeriod) ==
    LET fastEMA == CalculateEMA(d, fastPeriod)
        slowEMA == CalculateEMA(d, slowPeriod)
        macdLine == [k \in 1..Len(d) |-> NumSub(fastEMA[k], slowEMA[k])]
        signalLine == CalculateEMA(d, signalPeriod)
    IN  [macd |-> macdLine,
         signal |-> signalLine,
         histogram |-> [k \in 1..Len(d) |-> NumSub(macdLine[k], signalLine[k])]]

\* the integer part of the square root of a natural number
ISqrt(n) == CHOOSE r \in 0..n : r * r <= n /\ (r + 1) * (r + 1) > n

\* Math.sqrt of a fraction that is not negative: exact when the fraction is
\* a square, cut after the first decimal otherwise
Sqrt(x) ==
    IF x.d = 0 THEN x
    ELSE IF ISqrt(x.n) * ISqrt(x.n) = x.n /\ ISqrt(x.d) * ISqrt(x.d) = x.d
    THEN Norm(ISqrt(x.n), ISqrt(x.d))
    ELSE Norm(ISqrt(x.n * x.d * 100), x.d * 10)

\* the sum of Math.pow(candle.close - mean, 2) over the bars from..to
RECURSIVE SumSquares(_, _, _, _)
SumSquares(d, from, to, mean) ==
    IF from > to THEN Num(0)
    ELSE NumAdd(NumMul(NumSub(Num(d[from].close), mean),
                       NumSub(Num(d[from].close), mean)),
                SumSquares(d, from + 1, to, mean))

StandardDeviation(d, period, k) ==
    Sqrt(NumDiv(SumSquares(d, k - period + 1, k, CalculateSMA(d, period)[k]),
                Num(period)))

CalculateBollingerBands(d, period, stdDev) ==
    [upper |-> [k \in 1..Len(d) |->
                   IF k - 1 < period - 1 THEN Null
                   ELSE NumAdd(CalculateSMA(d, period)[k],
                               NumMul(StandardDeviation(d, period, k),
                                      Num(stdDev)))],
     middle |-> CalculateSMA(d, period),
     lower |-> [k \in 1..Len(d) |->
                   IF k - 1 < period - 1 THEN Null
                   ELSE NumSub(CalculateSMA(d, period)[k],
                               NumMul(StandardDeviation(d, period, k),
                                      Num(stdDev)))]]

RECURSIVE SumVolume(_, _, _)
SumVolume(d, from, to) ==
    IF from > to THEN 0 ELSE d[from].volume + SumVolume(d, from + 1, to)

CalculateVolumeSMA(d, period) ==
    [k \in 1..Len(d) |->
        IF k - 1 < period - 1 THEN Null
        ELSE Norm(SumVolume(d, k - period + 1, k), period)]

\* this.indicators.rsi = ...
PutRSI(map, strat, d) ==
    IF ~Requested(strat, "rsi") THEN map
    ELSE PutKey(map, Chars(<<"r", "s", "i">>),
                CalculateRSI(d, SettingOr(Field(Field(strat, "indicators"), "rsi"),
                                          "period", 14)))

MacdOf(strat, d) ==
    LET macdConfig == Field(Field(strat, "indicators"), "macd")
    IN  CalculateMACD(d, SettingOr(macdConfig, "fastPeriod", 12),
                      SettingOr(macdConfig, "slowPeriod", 26),
                      SettingOr(macdConfig, "signalPeriod", 9))

MacdKey == Chars(<<"m", "a", "c", "d">>)

MacdSignalKey == Chars(<<"m", "a", "c", "d", "S", "i", "g", "n", "a", "l">>)

MacdHistogramKey ==
    Chars(<<"m", "a", "c", "d", "H", "i", "s", "t", "o", "g", "r", "a", "m">>)

PutMACD(map, strat, d) ==
    IF ~Requested(strat, "macd") THEN map
    ELSE PutKey(PutKey(PutKey(map, MacdKey, MacdOf(strat, d).macd),
                       MacdSignalKey, MacdOf(strat, d).signal),
                MacdHistogramKey, MacdOf(strat, d).histogram)

BollingerOf(strat, d) ==
    LET bbConfig == Field(Field(strat, "indicators"), "bollinger")
    IN  CalculateBollingerBands(d, SettingOr(bbConfig, "period", 20),
                                SettingOr(bbConfig, "stdDev", 2))

PutBollinger(map, strat, d) ==
    IF ~Requested(strat, "bollinger") THEN map
    ELSE PutKey(PutKey(PutKey(map, Chars(<<"b", "b", "U", "p", "p", "e", "r">>),
                              BollingerOf(strat, d).upper),
                       Chars(<<"b", "b", "M", "i", "d", "d", "l", "e">>),
                       BollingerOf(strat, d).middle),
                Chars(<<"b", "b", "L", "o", "w", "e", "r">>),
                BollingerOf(strat, d).lower)

VolumeKey == Chars(<<"v", "o", "l", "u", "m", "e", "S", "M", "A">>)

PutVolume(map, strat, d) ==
    IF ~Requested(strat, "volume") THEN map
    ELSE PutKey(map, VolumeKey,
                CalculateVolumeSMA(d, SettingOr(Field(Field(strat, "indicators"),
                                                      "volume"), "period", 20)))

\* the call of calculateEMA on an empty series raises: for an EMA period,
\* or for the MACD
CalculateIndicatorsThrows(strat, d) ==
    /\ EMAThrows(d)
    /\ (Periods(strat, "ema") # <<>> \/ Requested(strat, "macd"))

\* what this.indicators holds when calculateIndicators raises
IndicatorsAtThrow(strat, d) ==
    IF Periods(strat, "ema") # <<>>
    THEN PutSMAs(<<>>, Periods(strat, "sma"), d)
    ELSE PutRSI(PutSMAs(<<>>, Periods(strat, "sma"), d), strat, d)

CalculateIndicators(strat, d) ==
    PutVolume(
        PutBollinger(
            PutMACD(
                PutRSI(PutEMAs(PutSMAs(<<>>, Periods(strat, "sma"), d),
                               Periods(strat, "ema"), d),
                       strat, d),
                strat, d),
            strat, d),
        strat, d)

\* the values object: an entry for every key whose series holds something
\* other than undefined at index (a null entry is not undefined)
GetIndicatorValues(inds, index) ==
    LET Has(e) == index + 1 \in DOMAIN e.series
        kept == SelectSeq(inds, Has)
    IN  [k \in DOMAIN kept |->
            [key |-> kept[k].key, val |-> kept[k].series[index + 1]]]

RECURSIVE MaxOf(_)
MaxOf(seq) ==
    IF seq = <<>> THEN 0
    ELSE LET m == MaxOf(Tail(seq))
         IN  IF Head(seq) > m THEN Head(seq) ELSE m

\* the periods pushed for rsi and bollinger; macd and volume push none
ConfigPeriod(strat, family, dflt) ==
    IF Requested(strat, family)
    THEN <<SettingOr(Field(Field(strat, "indicators"), family), "period", dflt)>>
    ELSE <<>>

GetStartIndex(strat) ==
    MaxOf(Periods(strat, "sma") \o Periods(strat, "ema")
          \o ConfigPeriod(strat, "rsi", 14)
          \o ConfigPeriod(strat, "bollinger", 20))

(***************************************************************************)
(* Condition Evaluator.                                                    *)
(***************************************************************************)
\* the context object of evaluateExpression, keys in insertion order
Context(values, d, index) ==
    LET bar == d[index + 1]
        own == <<[key |-> Chars(<<"p", "r", "i", "c", "e">>), val |-> Num(bar.close)],
                 [key |-> Chars(<<"h", "i", "g", "h">>), val |-> Num(bar.high)],
                 [key |-> Chars(<<"l", "o", "w">>), val |-> Num(bar.low)],
                 [key |-> Chars(<<"o", "p", "e", "n">>), val |-> Num(bar.open)],
                 [key |-> Chars(<<"i", "n", "d", "e", "x">>), val |-> Num(index)]>>
    IN  values \o own

RECURSIVE Substitute(_, _)
Substitute(text, ctx) ==
    IF ctx = <<>> THEN text
    ELSE Substitute(ReplaceAll(text, Head(ctx).key, ToText(Head(ctx).val)),
                    Tail(ctx))

\* what the body of the try block comes to: "true", "false" or "throw"
EvalOutcome(expression, values, d, index) ==
    JsEval(Substitute(expression, Context(values, d, index)))

\* a variant that lets the evaluation error escape
EvaluateExpressionNoCatch(expression, values, d, index) ==
    EvalOutcome(expression, values, d, index)

EvaluateExpression(expression, values, d, index) ==
    IF EvalOutcome(expression, values, d, index) = "throw" THEN "false"
    ELSE EvalOutcome(expression, values, d, index)

\* the predicates of the library's simple_test strategy
SimpleTestBuy == [t |-> "function", f |-> "simple_test.buy"]

SimpleTestSell == [t |-> "function", f |-> "simple_test.sell"]

\* values[key] as an operand of > and <: NaN for a key the object lacks,
\* 0 for null
ValueOf(values, key) ==
    IF \E k \in DOMAIN values : values[k].key = key
    THEN LET v == values[CHOOSE k \in DOMAIN values : values[k].key = key].val
         IN  IF "d" \in DOMAIN v THEN v ELSE Num(0)
    ELSE [n |-> 0, d |-> 0]

\* data[index].close > values.sma10 and data[index].close < values.sma10
SimpleTestPredicate(condition, values, d, index) ==
    IF condition = SimpleTestBuy
    THEN (IF NumLess(ValueOf(values, SmaKey(10)), Num(d[index + 1].close))
          THEN "true" ELSE "false")
    ELSE (IF NumLess(Num(d[index + 1].close), ValueOf(values, SmaKey(10)))
          THEN "true" ELSE "false")

\* fnOut is what a callable supplied by the caller does at this index
EvaluateCondition(condition, values, d, index, fnOut) ==
    IF condition.t = "function"
    THEN (IF condition = FalseFn THEN "false"
          ELSE IF condition \in {SimpleTestBuy, SimpleTestSell}
          THEN SimpleTestPredicate(condition, values, d, index)
          ELSE fnOut)
    ELSE IF condition.t = "string"
    THEN EvaluateExpression(condition.text, values, d, index)
    ELSE "false"

(***************************************************************************)
(* Trade Simulator: one iteration of the loop of executeTradingLogic, on   *)
(* the locals and the three arrays of the run.                             *)
(***************************************************************************)
BuyTrade(bar, index) ==
    [time |-> bar.time, action |-> "BUY", price |-> bar.close, index |-> index]

BuyMarker(bar) ==
    [time |-> bar.time, position |-> "belowBar", color |-> "green",
     shape |-> "arrowUp", text |-> "Buy", size |-> 1]

\* a variant that takes the profit the wrong way round
SellTradeReversed(bar, index, entryPrice) ==
    [time |-> bar.time, action |-> "SELL", price |-> bar.close, index |-> index,
     profit |-> entryPrice - bar.close,
     profitPercent |-> NumMul(NumDiv(Num(entryPrice - bar.close), Num(entryPrice)),
                              Num(100))]

SellTrade(bar, index, entryPrice) ==
    [time |-> bar.time, action |-> "SELL", price |-> bar.close, index |-> index,
     profit |-> bar.close - entryPrice,
     profitPercent |-> NumMul(NumDiv(Num(bar.close - entryPrice), Num(entryPrice)),
                              Num(100))]

SellMarker(bar) ==
    [time |-> bar.time, position |-> "aboveBar", color |-> "red",
     shape |-> "arrowDown", text |-> "Sell", size |-> 1]

\* a variant that forgets it is in a position
EnterLongStaysFlat(st, bar) ==
    [st EXCEPT !.entryPrice = bar.close, !.entryTime = bar.time]

\* inPosition = true; entryPrice = ...; entryTime = ...
EnterLong(st, bar) ==
    [st EXCEPT !.inPosition = TRUE, !.entryPrice = bar.close,
               !.entryTime = bar.time]

\* a variant that stays in the position after selling
ExitLongStaysLong(st) == st

\* inPosition = false
ExitLong(st) == [st EXCEPT !.inPosition = FALSE]

\* the locals and arrays a run starts from
FreshLocals ==
    [trades |-> <<>>, buyMarkers |-> <<>>, sellMarkers |-> <<>>,
     inPosition |-> FALSE, entryPrice |-> 0, entryTime |-> 0]

\* a variant that checks the buy predicate whatever the position
EvaluationBuyAlways(inPos, conds, values, d, index, fnOut) ==
    [index |-> index,
     side |-> "buy",
     kind |-> Field(conds, "buy").t,
     raw |-> IF Field(conds, "buy").t = "string"
             THEN EvalOutcome(Field(conds, "buy").text, values, d, index)
             ELSE EvaluateCondition(Field(conds, "buy"), values, d, index, fnOut),
     out |-> EvaluateCondition(Field(conds, "buy"), values, d, index, fnOut)]

\* The predicate evaluated at bar index `index`: which one (side), its
\* JavaScript type (kind), what its evaluation came to before any catch
\* (raw) and what evaluateCondition returned (out).
Evaluation(inPos, conds, values, d, index, fnOut) ==
    [index |-> index,
     side |-> IF inPos THEN "sell" ELSE "buy",
     kind |-> Field(conds, IF inPos THEN "sell" ELSE "buy").t,
     raw |-> IF Field(conds, IF inPos THEN "sell" ELSE "buy").t = "string"
             THEN EvalOutcome(Field(conds, IF inPos THEN "sell" ELSE "buy").text,
                              values, d, index)
             ELSE EvaluateCondition(Field(conds, IF inPos THEN "sell" ELSE "buy"),
                                    values, d, index, fnOut),
     out |-> EvaluateCondition(Field(conds, IF inPos THEN "sell" ELSE "buy"),
                               values, d, index, fnOut)]

\* the branch of the iteration that the evaluation `ev` selects
Decide(st, bar, index, ev) ==
    IF ev.out = "throw"
    THEN [st |-> st, threw |-> TRUE, log |-> <<ev>>]
    ELSE IF ev.out = "false"
    THEN [st |-> st, threw |-> FALSE, log |-> <<ev>>]
    ELSE IF ~st.inPosition
    THEN [st |-> EnterLong(
                   [st EXCEPT !.trades = Append(@, BuyTrade(bar, index)),
                              !.buyMarkers = Append(@, BuyMarker(bar))],
                   bar),
          threw |-> FALSE, log |-> <<ev>>]
    ELSE [st |-> ExitLong(
                   [st EXCEPT !.trades =
                                  Append(@, SellTrade(bar, index, st.entryPrice)),
                              !.sellMarkers = Append(@, SellMarker(bar))]),
          threw |-> FALSE, log |-> <<ev>>]

\* One iteration at bar index `index`.  threw: an exception left the loop
\* (reading strategy.conditions.buy of a missing conditions object is a
\* TypeError); log: the evaluation made, if one was.
Iteration(st, strat, d, inds, index, fnOut) ==
    IF ~CanRead(Field(strat, "conditions"))
    THEN [st |-> st, threw |-> TRUE, log |-> <<>>]
    ELSE Decide(st, d[index + 1], index,
                Evaluation(st.inPosition, Field(strat, "conditions"),
                           GetIndicatorValues(inds, index), d, index, fnOut))

(***************************************************************************)
(* Statistics Calculator.                                                  *)
(***************************************************************************)
CountAction(tr, a) == Cardinality({k \in DOMAIN tr : tr[k].action = a})

\* a variant that counts a break-even round trip as a win
IsWinOrEven(profit) == profit >= 0

IsWin(profit) == profit > 0

\* a variant that never raises the peak
NextPeakStuck(peak, totalProfit) == peak

\* if (stats.totalProfit > peak) peak = stats.totalProfit
NextPeak(peak, totalProfit) ==
    IF NumLess(peak, totalProfit) THEN totalProfit ELSE peak

\* a variant that passes over a break-even pair
IsRoundTripNotEven(buy, sell) ==
    buy.action = "BUY" /\ sell.action = "SELL" /\ sell.price # buy.price

IsRoundTrip(buy, sell) == buy.action = "BUY" /\ sell.action = "SELL"

StatsStart ==
    [wins |-> 0, losses |-> 0, totalProfit |-> Num(0),
     totalProfitPercent |-> Num(0), maxDrawdown |-> Num(0),
     avgWin |-> Num(0), avgLoss |-> Num(0), peak |-> Num(0)]

\* the body of the loop over i = 1, 3, 5, ... for the pair trades[i-1],
\* trades[i]
StatsPair(acc, buy, sell) ==
    IF ~IsRoundTrip(buy, sell) THEN acc
    ELSE LET profit == sell.price - buy.price
             pct == NumMul(NumDiv(Num(sell.price - buy.price), Num(buy.price)),
                           Num(100))
             total == NumAdd(acc.totalProfit, Num(profit))
             peak == NextPeak(acc.peak, total)
             dd == NumSub(peak, total)
         IN  [wins |-> IF IsWin(profit) THEN acc.wins + 1 ELSE acc.wins,
              losses |-> IF IsWin(profit) THEN acc.losses ELSE acc.losses + 1,
              totalProfit |-> total,
              totalProfitPercent |-> NumAdd(acc.totalProfitPercent, pct),
              maxDrawdown |-> IF NumLess(acc.maxDrawdown, dd) THEN dd
                              ELSE acc.maxDrawdown,
              avgWin |-> IF IsWin(profit) THEN NumAdd(acc.avgWin, Num(profit))
                         ELSE acc.avgWin,
              avgLoss |-> IF IsWin(profit) THEN acc.avgLoss
                          ELSE NumAdd(acc.avgLoss, Num(Abs(profit))),
              peak |-> peak]

RECURSIVE StatsLoop(_, _, _)
StatsLoop(tr, i, acc) ==
    IF ~(i < Len(tr)) THEN acc
    ELSE StatsLoop(tr, i + 2, StatsPair(acc, tr[i], tr[i + 1]))

CalculateStatistics(tr) ==
    LET acc == StatsLoop(tr, 1, StatsStart)
    IN  [totalTrades |-> Len(tr),
         buyTrades |-> CountAction(tr, "BUY"),
         sellTrades |-> CountAction(tr, "SELL"),
         wins |-> acc.wins,
         losses |-> acc.losses,
         totalProfit |-> acc.totalProfit,
         totalProfitPercent |-> acc.totalProfitPercent,
         maxDrawdown |-> acc.maxDrawdown,
         winRate |-> IF acc.wins + acc.losses > 0
                     THEN NumMul(Norm(acc.wins, acc.wins + acc.losses), Num(100))
                     ELSE Num(0),
         avgWin |-> IF acc.wins > 0 THEN NumDiv(acc.avgWin, Num(acc.wins))
                    ELSE Num(0),
         avgLoss |-> IF acc.losses > 0 THEN NumDiv(acc.avgLoss, Num(acc.losses))
                     ELSE Num(0)]

(***************************************************************************)
(* Strategy Library: validateStrategy and createCustomStrategy.            *)
(***************************************************************************)
Params(name, inds, buy, sell) ==
    [t |-> "object", name |-> name, indicators |-> inds,
     buyCondition |-> buy, sellCondition |-> sell]

Error(msg) == [t |-> "error", msg |-> msg]

\* the error validateStrategy throws for a strategy object, or Undefined
ValidationError(strat) ==
    IF \E f \in {"name", "indicators", "conditions"} : ~Truthy(Field(strat, f))
    THEN Error("Missing required fields")
    ELSE IF \/ ~Truthy(Field(Field(strat, "conditions"), "buy"))
            \/ ~Truthy(Field(Field(strat, "conditions"), "sell"))
    THEN Error("Strategy must have both buy and sell conditions")
    ELSE Undefined

CustomName == Str(Chars(<<"C", "u", "s", "t", "o", "m", " ", "S", "t", "r", "a",
                          "t", "e", "g", "y">>))

\* the strategy object createCustomStrategy builds before it validates it
BuildCustomStrategy(params) ==
    [t |-> "object",
     name |-> OrElse(Field(params, "name"), CustomName),
     indicators |-> OrElse(Field(params, "indicators"),
                           IndicatorSpec(Undefined, Undefined)),
     conditions |-> Conditions(OrElse(Field(params, "buyCondition"), FalseFn),
                               OrElse(Field(params, "sellCondition"), FalseFn)),
     data |-> Undefined]

\* what createCustomStrategy(params) comes to: the strategy or the error
CreateCustomStrategyResult(params) ==
    IF ~CanRead(params) THEN Error("TypeError")
    ELSE IF ValidationError(BuildCustomStrategy(params)) # Undefined
    THEN ValidationError(BuildCustomStrategy(params))
    ELSE BuildCustomStrategy(params)

(***************************************************************************)
(* The state.                                                              *)
(***************************************************************************)
VARIABLES
    \* the fields of the StrategyInterpreter instance; trades, buyMarkers
    \* and sellMarkers hold references into heap
    indicators, data, trades, buyMarkers, sellMarkers,
    \* the arrays allocated for trades and markers, by reference
    heap,
    \* the call of interpret in progress: where it is, the argument of
    \* executeStrategy, whether parseStringStrategy's try block is around
    \* it, and the locals of executeTradingLogic
    pc, strategy, viaString, i, inPosition, entryPrice, entryTime,
    \* the last call made (method and argument) and what it came to
    call, result,
    \* what the call in progress has computed so far
    work,
    \* the predicate evaluations of the run in progress
    evalLog,
    \* the reports the caller still holds, each with what its arrays held
    \* when it was returned
    held,
    \* what the call before the last one came to, and whether it left
    \* trades in the instance
    prior

vars ==
    <<indicators, data, trades, buyMarkers, sellMarkers, heap, pc, strategy,
      viaString, i, inPosition, entryPrice, entryTime, call, result, work,
      evalLog, held, prior>>

instanceVars == <<indicators, data, trades, buyMarkers, sellMarkers, heap>>

frameVars == <<strategy, viaString, i, inPosition, entryPrice, entryTime>>

NoWork == [indicators |-> FALSE, steps |-> 0, stats |-> FALSE]

\* the array references a held report keeps alive
HeldRefs(h) ==
    UNION {{h[k].trades, h[k].buyMarkers, h[k].sellMarkers} : k \in DOMAIN h}

RECURSIVE FreeIds(_, _, _)
FreeIds(used, n, from) ==
    IF n = 0 THEN {}
    ELSE IF from \in used THEN FreeIds(used, n, from + 1)
    ELSE {from} \cup FreeIds(used, n - 1, from + 1)

Instance(inds, d, tr, bm, sm) ==
    [indicators |-> inds, data |-> d, trades |-> tr, buyMarkers |-> bm,
     sellMarkers |-> sm]

\* a variant that empties the arrays it has instead of making new ones
ResetInPlace(inst, hp, keep) ==
    [inst |-> [inst EXCEPT !.indicators = <<>>, !.data = <<>>],
     heap |-> [id \in DOMAIN hp |->
                 IF id \in {inst.trades, inst.buyMarkers, inst.sellMarkers}
                 THEN <<>> ELSE hp[id]]]

\* reset(): five fresh values.  The arrays that neither the instance nor a
\* held report refers to any more are dropped from the heap.
Reset(inst, hp, keep) ==
    LET new == FreeIds(keep, 3, 1)
        tr == CHOOSE x \in new : \A y \in new : x <= y
        sm == CHOOSE x \in new : \A y \in new : x >= y
        bm == CHOOSE x \in new : x # tr /\ x # sm
    IN  [inst |-> Instance(<<>>, <<>>, tr, bm, sm),
         heap |-> [id \in keep \cup new |-> IF id \in keep THEN hp[id] ELSE <<>>]]

(***************************************************************************)
(* The inputs drawn.                                                       *)
(***************************************************************************)
StrategyName == Str(Chars(<<"S">>))

\* price > 1
TextPriceAbove == Str(Chars(<<"p", "r", "i", "c", "e", " ", ">", " ", "1">>))

\* price < sma2: resolves only when SMA(2) is requested
TextBelowSma == Str(Chars(<<"p", "r", "i", "c", "e", " ", "<", " ", "s", "m", "a", "2">>))

\* price > : malformed
TextMalformed == Str(Chars(<<"p", "r", "i", "c", "e", " ", ">">>))

Texts == {TextPriceAbove, TextBelowSma, TextMalformed}

IndicatorSpecs ==
    {Undefined, IndicatorSpec(Arr(<<2>>), Undefined),
     IndicatorSpec(Undefined, Arr(<<1>>)),
     IndicatorSpec(Arr(<<1>>), Arr(<<2>>))}

PredicatePairs ==
    {Conditions(UserFn, UserFn), Conditions(TextPriceAbove, TextBelowSma),
     Conditions(TextBelowSma, TextPriceAbove), Conditions(TextMalformed, UserFn),
     Conditions(UserFn, TextMalformed)}

\* well-formed descriptors over every bar series
SimulationInputs ==
    {Descriptor(StrategyName, inds, conds, Arr(d)) :
        inds \in IndicatorSpecs, conds \in PredicatePairs,
        d \in BarSeries(MaxBars)}

\* objects that may lack any of the fields, over the series of at most
\* one bar
LooseObjects(predicates) ==
    {Descriptor(name, inds, conds, bars) :
        name \in {Undefined, StrategyName},
        inds \in {Undefined, IndicatorSpec(Undefined, Undefined)},
        conds \in {Undefined} \cup
                  {Conditions(b, sl) : b \in predicates, sl \in predicates},
        bars \in {Undefined} \cup {Arr(d) : d \in BarSeries(1)}}

\* strings, by what JSON.parse makes of them (JSON carries no callable)
StringInputs ==
    {StrategyString(v) :
        v \in {SyntaxError, Null, NumberValue} \cup
              LooseObjects({Undefined, TextPriceAbove})}

\* volumeSMA < 1
TextVolumeBelow ==
    Str(VolumeKey \o Chars(<<" ", "<", " ", "1">>))

\* macdSignal > 0
TextSignalAbove ==
    Str(MacdSignalKey \o Chars(<<" ", ">", " ", "0">>))

Config(fields) == [t |-> "object"] @@ fields

\* requests of the indicators that are configured by an object
IndicatorConfigs ==
    {Config([rsi |-> Config([period |-> 1])]),
     Config([rsi |-> [t |-> "object"]]),
     Config([macd |-> [t |-> "object"]]),
     Config([macd |-> Config([fastPeriod |-> 1, slowPeriod |-> 2,
                              signalPeriod |-> 1])]),
     Config([bollinger |-> Config([period |-> 2, stdDev |-> 2])]),
     Config([volume |-> Config([period |-> 2])]),
     Config([sma |-> Arr(<<1>>), volume |-> Config([period |-> 2]),
             macd |-> [t |-> "object"]])}

\* descriptors that request them, over the series of at most three bars
ConfiguredInputs ==
    {Descriptor(StrategyName, inds, conds, Arr(d)) :
        inds \in IndicatorConfigs,
        conds \in {Conditions(UserFn, UserFn),
                   Conditions(TextVolumeBelow, UserFn),
                   Conditions(TextSignalAbove, UserFn)},
        d \in BarSeries(3)}

\* 25 bars whose closes rise from 100 to 124
RisingSeries == [k \in 1..25 |-> Bar(k, 99 + k)]

\* the library's simple_test strategy, with the bars to run it on
SimpleTest(d) ==
    Descriptor(Str(Chars(<<"S", "i", "m", "p", "l", "e", " ", "T", "e", "s", "t",
                           " ", "S", "t", "r", "a", "t", "e", "g", "y">>)),
               IndicatorSpec(Arr(<<10>>), Undefined),
               Conditions(SimpleTestBuy, SimpleTestSell), Arr(d))

Inputs ==
    SimulationInputs \cup LooseObjects({Undefined, UserFn}) \cup StringInputs
    \cup {Null, Undefined, NumberValue}
    \cup ConfiguredInputs \cup {SimpleTest(RisingSeries)}

ParamsInputs ==
    {Params(name, inds, b, sl) :
        name \in {Undefined, StrategyName},
        inds \in {Undefined, IndicatorSpec(Arr(<<2>>), Undefined)},
        b \in {Undefined, UserFn}, sl \in {Undefined, UserFn}}
    \cup {Undefined}

FnResults == {"true", "false", "throw"}

(***************************************************************************)
(* The actions.                                                            *)
(***************************************************************************)
Init ==
    /\ indicators = <<>>
    /\ data = <<>>
    /\ trades = 1
    /\ buyMarkers = 2
    /\ sellMarkers = 3
    /\ heap = [id \in 1..3 |-> <<>>]
    /\ pc = "idle"
    /\ strategy = Undefined
    /\ viaString = FALSE
    /\ i = 0
    /\ inPosition = FALSE
    /\ entryPrice = 0
    /\ entryTime = 0
    /\ call = [api |-> "none", input |-> Undefined]
    /\ result = Undefined
    /\ work = NoWork
    /\ evalLog = <<>>
    /\ held = <<>>
    /\ prior = [t |-> "none", leftover |-> FALSE]

\* what the caller of interpret gets for an exception raised inside
\* executeStrategy: parseStringStrategy's catch replaces it
Raised(msg, wrapped) ==
    IF wrapped THEN Error("Invalid strategy string format") ELSE Error(msg)

\* interpret(s) up to the loop of executeTradingLogic
Interpret(s) ==
    /\ pc = "idle"
    /\ call' = [api |-> "interpret", input |-> s]
    /\ evalLog' = <<>>
    /\ prior' = [t |-> result.t, leftover |-> heap[trades] # <<>>]
    /\ UNCHANGED held
    /\ IF s.t \notin {"string", "object", "null"}
       THEN /\ result' = Error("Invalid strategy format")
            /\ work' = NoWork
            /\ UNCHANGED <<instanceVars, frameVars, pc>>
       ELSE IF s.t = "string" /\ s.json = SyntaxError
       THEN /\ result' = Error("Invalid strategy string format")
            /\ work' = NoWork
            /\ UNCHANGED <<instanceVars, frameVars, pc>>
       ELSE LET strat == IF s.t = "string" THEN s.json ELSE s
                wrapped == s.t = "string"
                r == Reset(Instance(indicators, data, trades, buyMarkers,
                                    sellMarkers), heap, HeldRefs(held))
                d == IF Truthy(Field(strat, "data"))
                     THEN Field(strat, "data").items ELSE <<>>
            IN  /\ heap' = r.heap
                /\ trades' = r.inst.trades
                /\ buyMarkers' = r.inst.buyMarkers
                /\ sellMarkers' = r.inst.sellMarkers
                /\ strategy' = strat
                /\ viaString' = wrapped
                /\ inPosition' = FALSE
                /\ entryPrice' = 0
                /\ entryTime' = 0
                /\ IF ~CanRead(strat)
                   THEN /\ result' = Raised("TypeError", wrapped)
                        /\ data' = r.inst.data
                        /\ indicators' = r.inst.indicators
                        /\ work' = NoWork
                        /\ i' = 0
                        /\ pc' = "idle"
                   ELSE IF CalculateIndicatorsThrows(strat, d)
                   THEN /\ result' = Raised("TypeError", wrapped)
                        /\ data' = d
                        /\ indicators' = IndicatorsAtThrow(strat, d)
                        /\ work' = [NoWork EXCEPT !.indicators = TRUE]
                        /\ i' = 0
                        /\ pc' = "idle"
                   ELSE /\ result' = Undefined
                        /\ data' = d
                        /\ indicators' = CalculateIndicators(strat, d)
                        /\ work' = [NoWork EXCEPT !.indicators = TRUE]
                        /\ i' = GetStartIndex(strat)
                        /\ pc' = "loop"

Locals ==
    [trades |-> heap[trades], buyMarkers |-> heap[buyMarkers],
     sellMarkers |-> heap[sellMarkers], inPosition |-> inPosition,
     entryPrice |-> entryPrice, entryTime |-> entryTime]

\* one iteration of the loop of executeTradingLogic
LoopStep ==
    /\ pc = "loop"
    /\ i < Len(data)
    /\ \E fnOut \in FnResults :
         \E r \in {Iteration(Locals, strategy, data, indicators, i, fnOut)} :
             /\ heap' = [heap EXCEPT ![trades] = r.st.trades,
                                     ![buyMarkers] = r.st.buyMarkers,
                                     ![sellMarkers] = r.st.sellMarkers]
             /\ inPosition' = r.st.inPosition
             /\ entryPrice' = r.st.entryPrice
             /\ entryTime' = r.st.entryTime
             /\ evalLog' = evalLog \o r.log
             /\ work' = [work EXCEPT !.steps = @ + 1]
             /\ IF r.threw
                THEN /\ result' = Raised(IF r.log = <<>> THEN "TypeError"
                                         ELSE "predicate error", viaString)
                     /\ pc' = "idle"
                     /\ i' = i
                ELSE /\ result' = result
                     /\ pc' = "loop"
                     /\ i' = i + 1
    /\ UNCHANGED <<indicators, data, trades, buyMarkers, sellMarkers, strategy,
                   viaString, call, held, prior>>

\* the report object executeStrategy returns
Report ==
    [t |-> "report", trades |-> trades, buyMarkers |-> buyMarkers,
     sellMarkers |-> sellMarkers, stats |-> CalculateStatistics(heap[trades]),
     strategyName |-> OrElse(Field(strategy, "name"), CustomName)]

\* what the arrays of a report hold
Contents(rep) ==
    [trades |-> heap[rep.trades], buyMarkers |-> heap[rep.buyMarkers],
     sellMarkers |-> heap[rep.sellMarkers]]

\* the loop is over: statistics, and the report goes to the caller, who
\* keeps it or not
Finish(keep) ==
    /\ pc = "loop"
    /\ ~(i < Len(data))
    /\ result' = Report
    /\ work' = [work EXCEPT !.stats = TRUE]
    /\ pc' = "idle"
    /\ held' = IF keep
               THEN Append(held, [trades |-> trades, buyMarkers |-> buyMarkers,
                                  sellMarkers |-> sellMarkers,
                                  snap |-> Contents(Report)])
               ELSE held
    /\ UNCHANGED <<instanceVars, frameVars, call, evalLog, prior>>

FinishDrop == Finish(FALSE)

\* createCustomStrategy(params) on the library
CreateCustomStrategy(params) ==
    /\ pc = "idle"
    /\ call' = [api |-> "createCustomStrategy", input |-> params]
    /\ result' = CreateCustomStrategyResult(params)
    /\ work' = NoWork
    /\ prior' = [t |-> result.t, leftover |-> heap[trades] # <<>>]
    /\ UNCHANGED <<instanceVars, frameVars, pc, evalLog, held>>

\* the caller keeps at most MaxHeld reports
FinishKeep ==
    /\ Len(held) < MaxHeld
    /\ Finish(TRUE)

\* no call has been made on the two objects yet
FirstCall == call.api = "none"

\* one call on a freshly constructed interpreter or library
Next ==
    \/ \E s \in Inputs : FirstCall /\ Interpret(s)
    \/ LoopStep
    \/ FinishDrop
    \/ \E params \in ParamsInputs : FirstCall /\ CreateCustomStrategy(params)

Spec == Init /\ [][Next]_vars

(***************************************************************************)
(* Calls one after the other on the same instance, over a handful of       *)
(* inputs: runs that trade, a run whose predicate raises in mid-series, a  *)
(* run that fails in the indicator engine, and rejected inputs.            *)
(***************************************************************************)
SeqSeries ==
    {<<>>, <<Bar(1, 1), Bar(2, 2)>>, <<Bar(1, 2), Bar(2, 1), Bar(3, 2)>>}

SeqInputs ==
    {Descriptor(StrategyName, inds, conds, Arr(d)) :
        inds \in {Undefined, IndicatorSpec(Arr(<<1>>), Arr(<<1>>))},
        conds \in {Conditions(UserFn, UserFn),
                   Conditions(TextPriceAbove, TextMalformed)},
        d \in SeqSeries}
    \cup {Null, NumberValue, StrategyString(SyntaxError),
          Descriptor(Undefined, Undefined, Undefined, Arr(<<Bar(1, 1)>>))}

NextSeq ==
    \/ \E s \in SeqInputs : Interpret(s)
    \/ LoopStep
    \/ FinishDrop
    \/ FinishKeep

SpecSeq == Init /\ [][NextSeq]_vars

(***************************************************************************)
(* Properties of the trade log and of the statistics.                      *)
(***************************************************************************)
\* the trade log of the instance: this.trades
Log == heap[trades]

\* a call of interpret has returned a report
RunDone == pc = "idle" /\ call.api = "interpret" /\ result.t = "report"

\* C1: the trade log never holds two consecutive trades with the same
\* action: a BUY is followed by a SELL and a SELL by a BUY.
C1_Alternation ==
    \A k \in 1..(Len(Log) - 1) :
        /\ Log[k].action = "BUY" => Log[k + 1].action = "SELL"
        /\ Log[k].action = "SELL" => Log[k + 1].action = "BUY"

\* a finished run whose log goes BUY, SELL, BUY
C1_Witness ==
    /\ RunDone
    /\ Len(Log) >= 3
    /\ Log[1].action = "BUY" /\ Log[2].action = "SELL" /\ Log[3].action = "BUY"

\* C2: every SELL carries profit = its price - the price of the BUY just
\* before it in the log and profitPercent = profit / that BUY price * 100;
\* no BUY carries a profit or profitPercent field.
C2_SellProfit ==
    \A k \in 1..Len(Log) :
        IF Log[k].action = "SELL"
        THEN /\ k > 1
             /\ Log[k - 1].action = "BUY"
             /\ Log[k].profit = Log[k].price - Log[k - 1].price
             /\ Log[k].profitPercent.d # 0
             /\ Log[k].profitPercent.n * Log[k - 1].price
                  = Log[k].profit * 100 * Log[k].profitPercent.d
        ELSE {"profit", "profitPercent"} \cap DOMAIN Log[k] = {}

\* a SELL at a loss in the log
C2_Witness ==
    \E k \in 1..Len(Log) : Log[k].action = "SELL" /\ Log[k].profit < 0

\* the log without its last trade
Front(tr) == SubSeq(tr, 1, Len(tr) - 1)

\* the statistics that realized round trips decide
Realized(st) ==
    <<st.wins, st.losses, st.totalProfit, st.totalProfitPercent, st.maxDrawdown>>

\* C3: a series that ends in the Long state leaves the position open (the
\* log ends with a BUY, one more BUY than SELL) and that BUY changes none
\* of wins, losses, totalProfit, totalProfitPercent and maxDrawdown; a
\* series that ends Flat leaves as many BUYs as SELLs.
C3_NoLiquidation ==
    RunDone =>
        IF inPosition
        THEN /\ Log # <<>>
             /\ Log[Len(Log)].action = "BUY"
             /\ CountAction(Log, "BUY") = CountAction(Log, "SELL") + 1
             /\ Realized(result.stats) = Realized(CalculateStatistics(Front(Log)))
        ELSE CountAction(Log, "BUY") = CountAction(Log, "SELL")

\* a run that ends Long after a completed round trip
C3_Witness ==
    /\ RunDone
    /\ inPosition
    /\ Len(Log) = 3
    /\ result.stats.losses = 1

\* C4: wins + losses = floor(trades.length / 2), winRate is within
\* [0, 100], and winRate is 0 when wins + losses is 0.
C4_StatsConsistency ==
    RunDone =>
        LET st == result.stats
        IN  /\ st.wins + st.losses = Len(Log) \div 2
            /\ ~NumLess(st.winRate, Num(0))
            /\ ~NumLess(Num(100), st.winRate)
            /\ IsFinite(st.winRate)
            /\ (st.wins + st.losses = 0 => st.winRate = Num(0))

\* a run with a win and a loss: winRate 50
C4_Witness ==
    /\ RunDone
    /\ result.stats.wins = 1
    /\ result.stats.losses = 1
    /\ result.stats.winRate = Num(50)

\* the price difference of the k-th completed pair of a log
PairProfit(tr, k) == tr[2 * k].price - tr[2 * k - 1].price

RECURSIVE SumPairProfit(_, _)
SumPairProfit(tr, k) ==
    IF k = 0 THEN 0 ELSE SumPairProfit(tr, k - 1) + PairProfit(tr, k)

RECURSIVE SumSellProfit(_)
SumSellProfit(tr) ==
    IF tr = <<>> THEN 0
    ELSE SumSellProfit(Tail(tr))
         + (IF Head(tr).action = "SELL" THEN Head(tr).profit ELSE 0)

\* C5: totalProfit is the sum over the completed pairs of sell price - buy
\* price, which is the sum of the profit fields of the SELLs; a pair is a
\* win exactly when that difference is > 0 and a loss otherwise; and
\* totalTrades = buyTrades + sellTrades = trades.length.
C5_ProfitAndCounts ==
    RunDone =>
        LET st == result.stats
            pairs == 1..(Len(Log) \div 2)
        IN  /\ st.totalProfit = Num(SumPairProfit(Log, Len(Log) \div 2))
            /\ st.totalProfit = Num(SumSellProfit(Log))
            /\ st.wins = Cardinality({k \in pairs : PairProfit(Log, k) > 0})
            /\ st.losses = Cardinality({k \in pairs : PairProfit(Log, k) <= 0})
            /\ st.totalTrades = st.buyTrades + st.sellTrades
            /\ st.totalTrades = Len(Log)

\* a run with a break-even round trip, counted as a loss, and a win
C5_Witness ==
    /\ RunDone
    /\ \E k \in 1..(Len(Log) \div 2) : PairProfit(Log, k) = 0
    /\ result.stats.wins = 1
    /\ result.stats.losses = 1

\* the larger of two integers
Max2(a, b) == IF a > b THEN a ELSE b

\* the highest cumulative profit over the pairs from..k of a log; from is 1
\* for the curve of the pairs alone and 0 for the curve that starts at 0
RECURSIVE PeakOver(_, _, _)
PeakOver(tr, from, k) ==
    IF k = from THEN SumPairProfit(tr, k)
    ELSE Max2(PeakOver(tr, from, k - 1), SumPairProfit(tr, k))

\* the largest peak-to-current decline over the completed pairs
RECURSIVE DrawdownOver(_, _, _)
DrawdownOver(tr, from, k) ==
    IF k = 0 THEN 0
    ELSE Max2(DrawdownOver(tr, from, k - 1),
              PeakOver(tr, from, k) - SumPairProfit(tr, k))

\* the cumulative profit after k pairs never falls below an earlier value
\* of itself, the earlier values starting with the one after pair `from`
NeverFalls(tr, from) ==
    \A j \in from..(Len(tr) \div 2) :
        \A m \in from..j : SumPairProfit(tr, j) >= SumPairProfit(tr, m)

\* C6 as stated: maxDrawdown is the largest value over the completed pairs
\* of (the highest cumulative profit among the pairs up to and including
\* that pair) - (the cumulative profit after that pair), never negative,
\* and 0 when the cumulative profit never falls below an earlier value of
\* itself.
C6_AsStated ==
    RunDone =>
        /\ result.stats.maxDrawdown = Num(DrawdownOver(Log, 1, Len(Log) \div 2))
        /\ ~NumLess(result.stats.maxDrawdown, Num(0))
        /\ (NeverFalls(Log, 1) => result.stats.maxDrawdown = Num(0))

\* C6 amended: the peak is taken over the cumulative profit after every
\* pair so far and the 0 the curve starts from, so that a log that opens
\* with losing round trips has a drawdown; maxDrawdown is never negative,
\* and it is 0 when the cumulative profit never falls below an earlier
\* value of itself nor below 0.
C6_Drawdown ==
    RunDone =>
        /\ result.stats.maxDrawdown = Num(DrawdownOver(Log, 0, Len(Log) \div 2))
        /\ ~NumLess(result.stats.maxDrawdown, Num(0))
        /\ (NeverFalls(Log, 0) => result.stats.maxDrawdown = Num(0))

\* a run that wins a round trip and then loses one: a drawdown from a
\* peak above 0
C6_Witness ==
    /\ RunDone
    /\ Len(Log) = 4
    /\ PairProfit(Log, 1) > 0
    /\ PairProfit(Log, 2) < 0
    /\ result.stats.maxDrawdown = Num(1)

(***************************************************************************)
(* Properties of the handling of errors.                                   *)
(***************************************************************************)
\* the descriptor a call was given: the object handed to interpret, the
\* object a strategy string parses to, or the params of
\* createCustomStrategy read as a descriptor
GivenDescriptor ==
    IF call.api = "createCustomStrategy"
    THEN (IF call.input.t = "object"
          THEN Descriptor(call.input.name, call.input.indicators,
                          Conditions(call.input.buyCondition,
                                     call.input.sellCondition), Undefined)
          ELSE call.input)
    ELSE IF call.input.t = "string" THEN call.input.json
    ELSE call.input

\* a descriptor without name, indicators, conditions, conditions.buy or
\* conditions.sell
LacksRequired(desc) ==
    \/ \E f \in {"name", "indicators", "conditions"} : ~Truthy(Field(desc, f))
    \/ ~Truthy(Field(Field(desc, "conditions"), "buy"))
    \/ ~Truthy(Field(Field(desc, "conditions"), "sell"))

\* the call is over
CallDone == call.api # "none" /\ pc = "idle"

\* the call ended in an error, and nothing was computed before it
RejectedAtOnce == result.t = "error" /\ work = NoWork

\* C7: a descriptor that lacks conditions.buy or conditions.sell (or name,
\* indicators or conditions) is rejected with an error before any
\* indicator computation or simulation: createCustomStrategy yields no
\* strategy and interpret no report for it.
C7_LackingRejected ==
    (CallDone /\ GivenDescriptor.t = "object" /\ LacksRequired(GivenDescriptor))
    => RejectedAtOnce

\* an object with none of the fields of a descriptor
NonDescriptor(v) ==
    /\ v.t = "object"
    /\ \A f \in {"name", "indicators", "conditions"} : ~Truthy(Field(v, f))

\* an input of interpret of the wrong shape, or a string that does not
\* parse to a descriptor
Malformed(s) ==
    \/ s.t \in {"null", "undefined", "number"}
    \/ NonDescriptor(s)
    \/ /\ s.t = "string"
       /\ \/ s.json = SyntaxError
          \/ s.json.t \in {"null", "number"}
          \/ NonDescriptor(s.json)

\* C8: interpret of a malformed descriptor signals an error to the caller
\* before any indicator computation, simulation step or report.
C8_MalformedFailsFast ==
    (CallDone /\ call.api = "interpret" /\ Malformed(call.input))
    => RejectedAtOnce

\* a textual predicate whose evaluation failed
TextFailure(e) == e.kind = "string" /\ e.raw = "throw"

\* C9: when a textual expression fails to evaluate at a bar index,
\* evaluateExpression returns false for that bar, no trade is emitted at
\* that index, the loop goes on to the next index, and the error the
\* caller gets, if the run ends in one, is not that failure.
C9_FailureIsFalse ==
    \A k \in DOMAIN evalLog :
        TextFailure(evalLog[k]) =>
            /\ evalLog[k].out = "false"
            /\ \A j \in DOMAIN Log : Log[j].index # evalLog[k].index
            /\ i > evalLog[k].index
            /\ ~(k = Len(evalLog) /\ pc = "idle" /\ result.t = "error")

\* a run that returned a report with a trade in it, although a textual
\* predicate failed at a bar that was not the last
C9_Witness ==
    /\ RunDone
    /\ Log # <<>>
    /\ \E k \in DOMAIN evalLog :
         /\ TextFailure(evalLog[k])
         /\ k < Len(evalLog)
         /\ evalLog[k + 1].index = evalLog[k].index + 1

(***************************************************************************)
(* Isolation of runs.                                                      *)
(***************************************************************************)
\* what the callable evaluated at index idx did in the run logged
FnOutAt(log, idx) ==
    IF \E k \in DOMAIN log : log[k].index = idx
    THEN log[CHOOSE k \in DOMAIN log : log[k].index = idx].raw
    ELSE "false"

\* the loop of executeTradingLogic from index idx on, on its own locals
RECURSIVE RunFrom(_, _, _, _, _, _)
RunFrom(st, strat, d, inds, idx, log) ==
    IF ~(idx < Len(d)) THEN [t |-> "done", st |-> st]
    ELSE LET r == Iteration(st, strat, d, inds, idx, FnOutAt(log, idx))
         IN  IF r.threw THEN [t |-> "error"]
             ELSE RunFrom(r.st, strat, d, inds, idx + 1, log)

\* what a freshly constructed instance returns for the input s, the
\* callables doing what they did in the run logged
FreshReport(s, log) ==
    LET strat == IF s.t = "string" THEN s.json ELSE s
        d == IF Truthy(Field(strat, "data")) THEN Field(strat, "data").items
             ELSE <<>>
        run == RunFrom(FreshLocals, strat, d, CalculateIndicators(strat, d),
                       GetStartIndex(strat), log)
    IN  IF run.t = "error" THEN run
        ELSE [t |-> "report", trades |-> run.st.trades,
              buyMarkers |-> run.st.buyMarkers,
              sellMarkers |-> run.st.sellMarkers,
              stats |-> CalculateStatistics(run.st.trades),
              strategyName |-> OrElse(Field(strat, "name"), CustomName)]

\* the report the last call returned, its arrays read through
ReturnedReport ==
    [t |-> "report", trades |-> heap[result.trades],
     buyMarkers |-> heap[result.buyMarkers],
     sellMarkers |-> heap[result.sellMarkers], stats |-> result.stats,
     strategyName |-> result.strategyName]

\* C10: whatever calls came before it on the instance, those that ended in
\* an error included, a run returns the report a freshly constructed
\* instance returns for the same descriptor and bars, and the arrays of
\* the reports returned earlier hold what they held when returned.
C10_RunsIsolated ==
    /\ RunDone => ReturnedReport = FreshReport(call.input, evalLog)
    /\ \A k \in DOMAIN held : Contents(held[k]) = held[k].snap

\* a report with trades returned after a call that ended in an error and
\* left trades in the instance, while the caller holds an earlier report
\* with trades of its own
C10_Witness ==
    /\ RunDone
    /\ prior.t = "error"
    /\ prior.leftover
    /\ Log # <<>>
    /\ held # <<>>
    /\ held[1].trades # result.trades
    /\ held[1].snap.trades # <<>>

(***************************************************************************)
(* Properties of the walk over the bars and of the indicator series.       *)
(***************************************************************************)
\* the run of the simple_test strategy on the rising series has returned
RisingRunDone == RunDone /\ call.input = SimpleTest(RisingSeries)

\* the series this.indicators holds under a key
SeriesOf(inds, key) ==
    inds[CHOOSE k \in DOMAIN inds : inds[k].key = key].series

\* sma10 is defined at bar index idx and the close of the bar exceeds it
CloseAboveSma(idx) ==
    /\ IsNumElem(SeriesOf(indicators, SmaKey(10))[idx + 1])
    /\ NumLess(SeriesOf(indicators, SmaKey(10))[idx + 1],
               Num(data[idx + 1].close))

\* the first bar index at which sma10 is defined and close exceeds it
FirstCloseAboveSma ==
    CHOOSE idx \in 0..(Len(data) - 1) :
        CloseAboveSma(idx) /\ \A j \in 0..(idx - 1) : ~CloseAboveSma(j)

\* C11: on the 25 rising bars the simple_test strategy emits
\* exactly one BUY and no SELL, and the BUY is at the first bar index at
\* which sma10 is defined and close exceeds it.
C11_FirstSignalBar ==
    RisingRunDone =>
        /\ CountAction(Log, "BUY") = 1
        /\ CountAction(Log, "SELL") = 0
        /\ Log[1].index = FirstCloseAboveSma

\* calculateIndicators raised in the last call of interpret
IndicatorsRaised ==
    /\ call.api = "interpret"
    /\ pc = "idle"
    /\ result.t = "error"
    /\ work.indicators
    /\ work.steps = 0

\* n entries: warm-up sentinels, then finite numbers
WellFormedSeries(series, n) ==
    /\ Len(series) = n
    /\ \E w \in 0..n :
         /\ \A k \in 1..w : ~IsNumElem(series[k])
         /\ \A k \in (w + 1)..n : IsNumElem(series[k]) /\ IsFinite(series[k])

\* C12: for every bar series, the empty one and flat ones included,
\* calculateIndicators completes without raising and every series it
\* produces has one entry per bar: sentinels up to the warm-up index and
\* finite numbers from there on.
C12_IndicatorsTotal ==
    (call.api = "interpret" /\ work.indicators) =>
        /\ ~IndicatorsRaised
        /\ \A k \in DOMAIN indicators :
             WellFormedSeries(indicators[k].series, Len(data))

\* the number of trades of the log at bar indices below idx
TradesBefore(idx) == Cardinality({k \in DOMAIN Log : Log[k].index < idx})

\* C13: at every bar index one predicate is evaluated, the sell predicate
\* when the simulator is Long at the start of the index (an odd number of
\* trades so far) and the buy predicate when it is Flat; no index is
\* visited twice, and the indices of the trade log increase strictly.
C13_OneCheckPerIndex ==
    /\ \A k \in DOMAIN evalLog :
         evalLog[k].side =
             (IF TradesBefore(evalLog[k].index) % 2 = 1 THEN "sell" ELSE "buy")
    /\ \A k \in 1..(Len(evalLog) - 1) : evalLog[k].index < evalLog[k + 1].index
    /\ \A k \in 1..(Len(Log) - 1) : Log[k].index < Log[k + 1].index

\* a run that bought at one bar and sold at the next
C13_Witness ==
    /\ RunDone
    /\ Len(Log) >= 2
    /\ Log[2].action = "SELL"
    /\ Log[2].index = Log[1].index + 1
    /\ Len(evalLog) >= 2

\* the text of the predicate an evaluation was of
TextOf(e) == Field(Field(strategy, "conditions"), e.side).text

\* key occurs in text
Mentions(text, key) ==
    \E p \in 1..Len(text) : StartsWith(SubSeq(text, p, Len(text)), key)

\* the indicator keys whose series is in its warm-up at bar index idx
WarmingUp(idx) ==
    {indicators[k].key : k \in {j \in DOMAIN indicators :
                                  ~IsNumElem(indicators[j].series[idx + 1])}}

\* C14: the map handed to a predicate holds a key only with a defined
\* numeric value, never with null, and a textual expression that names an
\* indicator still in its warm-up at that index resolves to false.
C14_NoNullValues ==
    RunDone => \A k \in DOMAIN evalLog :
        /\ \A j \in DOMAIN GetIndicatorValues(indicators, evalLog[k].index) :
             IsNumElem(GetIndicatorValues(indicators, evalLog[k].index)[j].val)
        /\ (/\ evalLog[k].kind = "string"
            /\ \E key \in WarmingUp(evalLog[k].index) :
                 Mentions(TextOf(evalLog[k]), key))
           => evalLog[k].out = "false"

\* the configured periods of every indicator a descriptor requests
AllPeriods(strat) ==
    Periods(strat, "sma") \o Periods(strat, "ema")
    \o ConfigPeriod(strat, "rsi", 14)
    \o (IF Requested(strat, "macd")
        THEN <<SettingOr(Field(Field(strat, "indicators"), "macd"),
                         "fastPeriod", 12),
               SettingOr(Field(Field(strat, "indicators"), "macd"),
                         "slowPeriod", 26),
               SettingOr(Field(Field(strat, "indicators"), "macd"),
                         "signalPeriod", 9)>>
        ELSE <<>>)
    \o ConfigPeriod(strat, "bollinger", 20)
    \o ConfigPeriod(strat, "volume", 20)

\* C15: the walk starts at the largest configured period over all the
\* requested indicators, the MACD and the volume SMA included: no
\* predicate is evaluated and no trade emitted at a smaller index, every
\* requested indicator is past its warm-up at every visited index, and a
\* series shorter than the start index gives no trade.
C15_StartsPastWarmup ==
    RunDone =>
        /\ \A k \in DOMAIN evalLog :
             /\ evalLog[k].index >= MaxOf(AllPeriods(strategy))
             /\ WarmingUp(evalLog[k].index) = {}
        /\ \A k \in DOMAIN Log : Log[k].index >= MaxOf(AllPeriods(strategy))
        /\ (Len(data) <= MaxOf(AllPeriods(strategy)) => Log = <<>>)

\* the value a context holds under a key
ContextValue(ctx, key) ==
    ctx[CHOOSE k \in DOMAIN ctx : ctx[k].key = key].val

\* the text with every identifier that is a context key replaced by the
\* value of that key, and nothing else altered
RECURSIVE SubstituteWhole(_, _)
SubstituteWhole(text, ctx) ==
    IF text = <<>> THEN <<>>
    ELSE IF IsLetter(Head(text))
    THEN (IF \E k \in DOMAIN ctx : ctx[k].key = SubSeq(text, 1, IdLen(text))
          THEN ToText(ContextValue(ctx, SubSeq(text, 1, IdLen(text))))
          ELSE SubSeq(text, 1, IdLen(text)))
         \o SubstituteWhole(SubSeq(text, IdLen(text) + 1, Len(text)), ctx)
    ELSE <<Head(text)>> \o SubstituteWhole(Tail(text), ctx)

\* C16: a textual expression evaluates as the text in which each
\* identifier that equals a context key stands for that key's own value:
\* a key that is part of a longer identifier does not corrupt it.
C16_WholeIdentifiers ==
    RunDone => \A k \in DOMAIN evalLog :
        evalLog[k].kind = "string" =>
            evalLog[k].raw =
                JsEval(SubstituteWhole(
                           TextOf(evalLog[k]),
                           Context(GetIndicatorValues(indicators, evalLog[k].index),
                                   data, evalLog[k].index)))

\* the EMA recurrence on a series of numbers, seeded with its first entry
RECURSIVE EMAOfSeries(_, _, _)
EMAOfSeries(series, period, k) ==
    IF k = 1 THEN series[1]
    ELSE NumAdd(NumMul(series[k], Norm(2, period + 1)),
                NumMul(EMAOfSeries(series, period, k - 1),
                       NumSub(Num(1), Norm(2, period + 1))))

\* the periods of the MACD a descriptor requests
MacdSetting(strat, f, dflt) ==
    SettingOr(Field(Field(strat, "indicators"), "macd"), f, dflt)

\* C17: macd[i] = EMA(fast)[i] - EMA(slow)[i] over the closes, the signal
\* series is the EMA(signal) recurrence on the macd series, seeded with
\* macd[0], and histogram[i] = macd[i] - signal[i].
C17_MacdLines ==
    (/\ call.api = "interpret"
     /\ work.indicators
     /\ ~IndicatorsRaised
     /\ Requested(strategy, "macd")) =>
        \A k \in 1..Len(data) :
            /\ SeriesOf(indicators, MacdKey)[k] =
                   NumSub(CalculateEMA(data, MacdSetting(strategy, "fastPeriod", 12))[k],
                          CalculateEMA(data, MacdSetting(strategy, "slowPeriod", 26))[k])
            /\ SeriesOf(indicators, MacdSignalKey)[k] =
                   EMAOfSeries(SeriesOf(indicators, MacdKey),
                               MacdSetting(strategy, "signalPeriod", 9), k)
            /\ SeriesOf(indicators, MacdHistogramKey)[k] =
                   NumSub(SeriesOf(indicators, MacdKey)[k],
                          SeriesOf(indicators, MacdSignalKey)[k])

==========================================================================
